---- MODULE Spec2Model ----
(***************************************************************************)
(* Model of load-demo-xmlrpc.py: main() connects to a Tryton server over   *)
(* XML-RPC, logs in, prints the composed session identifier and issues one *)
(* model listing query.  The server is the environment: each RPC either    *)
(* returns a value or raises.                                              *)
(***************************************************************************)
EXTENDS Integers, Sequences, FiniteSets

VARIABLES pc, out, calls, result, session_id, models, e, exitCode

vars == <<pc, out, calls, result, session_id, models, e, exitCode>>

(* ------------------------------ bounds --------------------------------- *)

\* longest sequence the server returns from login
MaxTokens == 2
\* longest list the server returns from the listing query
MaxModels == 11

(* ------------------------- configuration ------------------------------- *)

SERVER_URL == "http://localhost:8001/"
DATABASE == "demo"
USERNAME == "admin"
PASSWORD == "admin"

(* --------------------------- Python values ----------------------------- *)
\* Every Python value is a record of one shape, so that values of different
\* Python types can be compared.

PyVal(t, i, s, items) == [t |-> t, i |-> i, s |-> s, items |-> items]

PyUnbound == PyVal("unbound", 0, "", <<>>)
PyNone == PyVal("NoneType", 0, "", <<>>)
PyTrue == PyVal("bool", 1, "", <<>>)
PyInt(n) == PyVal("int", n, "", <<>>)
PyString(s) == PyVal("str", 0, s, <<>>)
PyList(items) == PyVal("list", 0, "", items)
\* a dict is kept as its key/value pairs, flattened
PyDict(items) == PyVal("dict", 0, "", items)
PyException(type, text) == PyVal(type, 0, text, <<>>)

Digit(d) == SubSeq("0123456789", d + 1, d + 1)

RECURSIVE Digits(_)
Digits(n) == IF n < 10 THEN Digit(n) ELSE Digits(n \div 10) \o Digit(n % 10)

\* str(v) for the values XML-RPC can carry as elements
PyStr(v) ==
    CASE v.t = "int" -> IF v.i < 0 THEN "-" \o Digits(0 - v.i) ELSE Digits(v.i)
      [] v.t = "str" -> v.s
      [] v.t = "bool" -> IF v.i = 1 THEN "True" ELSE "False"
      [] v.t = "NoneType" -> "None"
      [] OTHER -> v.s

\* sep.join(strs)
RECURSIVE Join(_, _)
Join(sep, strs) ==
    IF strs = <<>> THEN ""
    ELSE IF Len(strs) = 1 THEN strs[1]
    ELSE strs[1] \o sep \o Join(sep, Tail(strs))

\* map(str, xs)
MapStr(xs) == [k \in DOMAIN xs |-> PyStr(xs[k])]

\* [USERNAME] + result raises TypeError unless result is a list
IsList(v) == v.t = "list"

ConcatTypeError(v) ==
    PyException("TypeError",
        "can only concatenate list (not \"" \o v.t \o "\") to list")

\* len(v) is defined for lists and strings among the values modelled
HasLen(v) == v.t \in {"list", "str"}

PyLen(v) == IF v.t = "list" THEN Len(v.items) ELSE Len(v.s)

LenTypeError(v) ==
    PyException("TypeError", "object of type '" \o v.t \o "' has no len()")

(* --------------------------- the environment --------------------------- *)

RECURSIVE SeqsUpTo(_, _)
SeqsUpTo(S, n) ==
    IF n = 0 THEN {<<>>}
    ELSE LET shorter == SeqsUpTo(S, n - 1)
         IN shorter \cup {Append(q, x) : q \in {r \in shorter : Len(r) = n - 1}, x \in S}

\* elements the server may put in the login result
TokenValues ==
    {PyInt(0), PyInt(105), PyInt(0 - 12), PyString(""), PyString("a:b"),
     PyNone, PyTrue}

\* values the login call may return: lists of any shape, and non-lists
LoginResults ==
    {PyList(q) : q \in SeqsUpTo(TokenValues, MaxTokens)}
        \cup {PyNone, PyInt(1), PyString("tok"), PyTrue}

\* values the listing query may return: lists of model ids, and non-lists
SearchResults ==
    {PyList([k \in 1..n |-> PyInt(k)]) : n \in 0..MaxModels}
        \cup {PyNone, PyInt(3), PyString("ab")}

\* exceptions an RPC may raise: network, protocol and server (authentication)
RpcErrors ==
    {PyException("ConnectionRefusedError", "[Errno 111] Connection refused"),
     PyException("ProtocolError", "<ProtocolError for localhost:8001/: 404 Not Found>"),
     PyException("Fault", "<Fault 403: 'Forbidden'>")}

(* ------------------------------ main() --------------------------------- *)

Emit(kind, text) == Append(out, [line |-> kind, text |-> text])

Call(method, args) == Append(calls, [method |-> method, args |-> args])

Init ==
    /\ pc = "start"
    /\ out = <<>>
    /\ calls = <<>>
    /\ result = PyUnbound
    /\ session_id = PyUnbound
    /\ models = PyUnbound
    /\ e = PyUnbound
    /\ exitCode = <<>>

\* print "Connecting to ..." and build the ServerProxy (no network traffic)
Connect ==
    /\ pc = "start"
    /\ out' = Emit("Connecting",
            "Connecting to " \o SERVER_URL \o " database '" \o DATABASE \o "'...")
    /\ pc' = "login"
    /\ UNCHANGED <<calls, result, session_id, models, e, exitCode>>

\* print "Logging in as ..." and send server.common.db.login
IssueLogin ==
    /\ pc = "login"
    /\ out' = Emit("LoggingIn", "Logging in as " \o USERNAME \o "...")
    /\ calls' = Call("common.db.login",
            <<PyString(USERNAME), PyDict(<<PyString("password"), PyString(PASSWORD)>>)>>)
    /\ pc' = "login_wait"
    /\ UNCHANGED <<result, session_id, models, e, exitCode>>

\* the login call returns v
LoginReturns(v) ==
    /\ pc = "login_wait"
    /\ result' = v
    /\ pc' = "compose"
    /\ UNCHANGED <<out, calls, session_id, models, e, exitCode>>

\* the login call raises x
LoginRaises(x) ==
    /\ pc = "login_wait"
    /\ e' = x
    /\ pc' = "login_except"
    /\ UNCHANGED <<out, calls, result, session_id, models, exitCode>>

\* ComposeSession joining result + [USERNAME] instead of [USERNAME] + result
ComposeSession_ResultFirst ==
    /\ pc = "compose"
    /\ IF IsList(result)
       THEN /\ session_id' =
                PyString(Join(":", MapStr(result.items \o <<PyString(USERNAME)>>)))
            /\ out' = Emit("LoggedIn", "Logged in successfully!")
            /\ pc' = "connected"
            /\ e' = e
       ELSE /\ e' = ConcatTypeError(result)
            /\ pc' = "login_except"
            /\ UNCHANGED <<session_id, out>>
    /\ UNCHANGED <<calls, result, models, exitCode>>

\* ComposeSession wrapping a non-list result as [result] instead of raising
ComposeSession_Coerce ==
    /\ pc = "compose"
    /\ session_id' =
          PyString(Join(":", MapStr(<<PyString(USERNAME)>> \o
              (IF IsList(result) THEN result.items ELSE <<result>>))))
    /\ out' = Emit("LoggedIn", "Logged in successfully!")
    /\ pc' = "connected"
    /\ UNCHANGED <<calls, result, models, e, exitCode>>

\* ComposeSession printing "Logged in successfully!" before it composes
ComposeSession_PrintFirst ==
    /\ pc = "compose"
    /\ out' = Emit("LoggedIn", "Logged in successfully!")
    /\ IF IsList(result)
       THEN /\ session_id' =
                PyString(Join(":", MapStr(<<PyString(USERNAME)>> \o result.items)))
            /\ pc' = "connected"
            /\ e' = e
       ELSE /\ e' = ConcatTypeError(result)
            /\ pc' = "login_except"
            /\ session_id' = session_id
    /\ UNCHANGED <<calls, result, models, exitCode>>

\* session_id = ':'.join(map(str, [USERNAME] + result)); print "Logged in"
ComposeSession ==
    /\ pc = "compose"
    /\ IF IsList(result)
       THEN /\ session_id' =
                PyString(Join(":", MapStr(<<PyString(USERNAME)>> \o result.items)))
            /\ out' = Emit("LoggedIn", "Logged in successfully!")
            /\ pc' = "connected"
            /\ e' = e
       ELSE /\ e' = ConcatTypeError(result)
            /\ pc' = "login_except"
            /\ UNCHANGED <<session_id, out>>
    /\ UNCHANGED <<calls, result, models, exitCode>>

LoginFailureLines ==
    << [line |-> "LoginFailed", text |-> "Login failed: " \o e.s],
       [line |-> "TryingCreate", text |-> "\nTrying to create admin user first..."],
       [line |-> "NeedsInit", text |->
          "Database needs initialization. Please run: trytond-admin -c trytond.conf -d demo --all"] >>

\* LoginExcept returning 0
LoginExcept_ReturnsZero ==
    /\ pc = "login_except"
    /\ out' = out \o LoginFailureLines
    /\ e' = PyUnbound
    /\ exitCode' = <<0>>
    /\ pc' = "done"
    /\ UNCHANGED <<calls, result, session_id, models>>

\* LoginExcept logging in a second time before it gives up
LoginExcept_RetryOnce ==
    /\ pc = "login_except"
    /\ out' = out \o LoginFailureLines
    /\ e' = PyUnbound
    /\ IF Len(calls) < 2
       THEN pc' = "login" /\ exitCode' = exitCode
       ELSE pc' = "done" /\ exitCode' = <<1>>
    /\ UNCHANGED <<calls, result, session_id, models>>

\* LoginExcept as "except xmlrpc.client.Fault": anything else escapes main()
LoginExcept_OnlyFault ==
    /\ pc = "login_except"
    /\ out' = IF e.t = "Fault" THEN out \o LoginFailureLines ELSE out
    /\ e' = PyUnbound
    /\ exitCode' = <<1>>
    /\ pc' = "done"
    /\ UNCHANGED <<calls, result, session_id, models>>

\* except Exception as e: print the failure and the hint, return 1
LoginExcept ==
    /\ pc = "login_except"
    /\ out' = out \o LoginFailureLines
    /\ e' = PyUnbound
    /\ exitCode' = <<1>>
    /\ pc' = "done"
    /\ UNCHANGED <<calls, result, session_id, models>>

\* print "Connection successful!" and the session identifier
PrintConnection ==
    /\ pc = "connected"
    /\ out' = out \o
        << [line |-> "Connection", text |-> "\nConnection successful!"],
           [line |-> "SessionID", text |-> "Session ID: " \o session_id.s] >>
    /\ pc' = "search"
    /\ UNCHANGED <<calls, result, session_id, models, e, exitCode>>

SearchLimit == 10

\* IssueSearch passing the session identifier along with the query
IssueSearch_WithSession ==
    /\ pc = "search"
    /\ calls' = Call("model.ir.model.search",
            <<PyList(<<>>), PyInt(0), PyInt(SearchLimit), PyNone, PyString(session_id.s)>>)
    /\ pc' = "search_wait"
    /\ UNCHANGED <<out, result, session_id, models, e, exitCode>>

\* send server.model.ir.model.search([], 0, 10, None)
IssueSearch ==
    /\ pc = "search"
    /\ calls' = Call("model.ir.model.search",
            <<PyList(<<>>), PyInt(0), PyInt(SearchLimit), PyNone>>)
    /\ pc' = "search_wait"
    /\ UNCHANGED <<out, result, session_id, models, e, exitCode>>

\* the listing query returns m
SearchReturns(m) ==
    /\ pc = "search_wait"
    /\ models' = m
    /\ pc' = "count"
    /\ UNCHANGED <<out, calls, result, session_id, e, exitCode>>

\* the listing query raises x
SearchRaises(x) ==
    /\ pc = "search_wait"
    /\ e' = x
    /\ pc' = "search_except"
    /\ UNCHANGED <<out, calls, result, session_id, models, exitCode>>

\* CountModels counting no more than the limit asked for
CountModels_Capped ==
    /\ pc = "count"
    /\ IF HasLen(models)
       THEN /\ out' = Emit("Found",
                    "\nFound "
                    \o PyStr(PyInt(IF PyLen(models) > SearchLimit
                                   THEN SearchLimit ELSE PyLen(models)))
                    \o " models (showing first 10)")
            /\ pc' = "return"
            /\ e' = e
       ELSE /\ e' = LenTypeError(models)
            /\ pc' = "search_except"
            /\ out' = out
    /\ UNCHANGED <<calls, result, session_id, models, exitCode>>

\* print "Found {len(models)} models (showing first 10)", inside the try
CountModels ==
    /\ pc = "count"
    /\ IF HasLen(models)
       THEN /\ out' = Emit("Found",
                    "\nFound " \o PyStr(PyInt(PyLen(models))) \o " models (showing first 10)")
            /\ pc' = "return"
            /\ e' = e
       ELSE /\ e' = LenTypeError(models)
            /\ pc' = "search_except"
            /\ out' = out
    /\ UNCHANGED <<calls, result, session_id, models, exitCode>>

\* SearchExcept returning 1
SearchExcept_ReturnsOne ==
    /\ pc = "search_except"
    /\ out' = Emit("ErrorListing", "Error listing models: " \o e.s)
    /\ e' = PyUnbound
    /\ exitCode' = <<1>>
    /\ pc' = "done"
    /\ UNCHANGED <<calls, result, session_id, models>>

\* SearchExcept printing a count of 0 after the error
SearchExcept_CountsZero ==
    /\ pc = "search_except"
    /\ out' = out \o
        << [line |-> "ErrorListing", text |-> "Error listing models: " \o e.s],
           [line |-> "Found", text |-> "\nFound 0 models (showing first 10)"] >>
    /\ e' = PyUnbound
    /\ pc' = "return"
    /\ UNCHANGED <<calls, result, session_id, models, exitCode>>

\* except Exception as e: print the error and go on
SearchExcept ==
    /\ pc = "search_except"
    /\ out' = Emit("ErrorListing", "Error listing models: " \o e.s)
    /\ e' = PyUnbound
    /\ pc' = "return"
    /\ UNCHANGED <<calls, result, session_id, models, exitCode>>

\* return 0
Return0 ==
    /\ pc = "return"
    /\ exitCode' = <<0>>
    /\ pc' = "done"
    /\ UNCHANGED <<out, calls, result, session_id, models, e>>

Next ==
    \/ Connect
    \/ IssueLogin
    \/ \E v \in LoginResults : LoginReturns(v)
    \/ \E x \in RpcErrors : LoginRaises(x)
    \/ ComposeSession
    \/ LoginExcept
    \/ PrintConnection
    \/ IssueSearch
    \/ \E m \in SearchResults : SearchReturns(m)
    \/ \E x \in RpcErrors : SearchRaises(x)
    \/ CountModels
    \/ SearchExcept
    \/ Return0

Spec == Init /\ [][Next]_vars

\* every RPC eventually returns or raises, and main() runs on without pause
FairSpec == Spec /\ WF_vars(Next)

(* ------------------------------ properties ------------------------------ *)

Done == pc = "done"

Printed(kind) == \E k \in DOMAIN out : out[k].line = kind

Issued(method) == \E k \in DOMAIN calls : calls[k].method = method

Kinds(o) == [k \in DOMAIN o |-> o[k].line]

\* the login call itself raised: control left the call with nothing bound
LoginCallRaised == pc \in {"login_except", "done"} /\ result = PyUnbound

\* the listing query itself raised
SearchCallRaised ==
    /\ pc \in {"search_except", "return", "done"}
    /\ Issued("model.ir.model.search")
    /\ models = PyUnbound

LoginFailurePath ==
    <<"Connecting", "LoggingIn", "LoginFailed", "TryingCreate", "NeedsInit">>

SearchFailurePath ==
    <<"Connecting", "LoggingIn", "LoggedIn", "Connection", "SessionID", "ErrorListing">>

\* C1: when the login call raises, the run prints "Login failed" and the
\* trytond-admin hint, returns exit code 1 and never issues the listing query.
C1_LoginRaiseExitsOne ==
    LoginCallRaised =>
        /\ ~Issued("model.ir.model.search")
        /\ Done =>
            /\ exitCode = <<1>>
            /\ Printed("LoginFailed")
            /\ out[Len(out)].text =
                 "Database needs initialization. Please run: trytond-admin -c trytond.conf -d demo --all"

C1_Witness == Done /\ LoginCallRaised /\ exitCode = <<1>>

\* C2: once "Logged in successfully!" is printed the run exits with 0 whether
\* the listing query returns or raises; exit code 1 occurs only after a login
\* failure.
C2_ExitCodeIgnoresListing ==
    Done =>
        /\ exitCode \in {<<0>>, <<1>>}
        /\ Printed("LoggedIn") => exitCode = <<0>>
        /\ exitCode = <<1>> => Printed("LoginFailed") /\ ~Issued("model.ir.model.search")

C2_Witness == Done /\ SearchCallRaised /\ Printed("ErrorListing") /\ exitCode = <<0>>

\* C3 as stated: every run that reaches the listing query prints a count of
\* results, whether the query succeeded or failed.
C3_CountPrintedRegardless ==
    (Done /\ Issued("model.ir.model.search")) => Printed("Found")

\* C3 amended: a run that reaches the listing query prints the count exactly
\* when the query returned a value that has a length; when the query raises,
\* the run prints the error and no count.
C3_CountOnlyOnSuccess ==
    (Done /\ Issued("model.ir.model.search")) =>
        /\ Printed("Found") <=> (models # PyUnbound /\ models.t \in {"list", "str"})
        /\ Printed("ErrorListing") <=> ~Printed("Found")
        /\ SearchCallRaised => Printed("ErrorListing") /\ ~Printed("Found")

C3_Witness == Done /\ SearchCallRaised /\ Printed("ErrorListing") /\ ~Printed("Found")

\* str() of the token values, tabulated
Rendering(v) ==
    CASE v = PyInt(0) -> "0"
      [] v = PyInt(105) -> "105"
      [] v = PyInt(0 - 12) -> "-12"
      [] v = PyString("") -> ""
      [] v = PyString("a:b") -> "a:b"
      [] v = PyNone -> "None"
      [] v = PyTrue -> "True"

RECURSIVE Offset(_, _)
\* where the k-th part starts in a ':'-joined string, counting from 0
Offset(parts, k) ==
    IF k = 1 THEN 0 ELSE Offset(parts, k - 1) + Len(parts[k - 1]) + 1

\* s is the parts in order, each but the first preceded by one ':'
WellJoined(s, parts) ==
    /\ Len(s) = Offset(parts, Len(parts)) + Len(parts[Len(parts)])
    /\ \A k \in DOMAIN parts :
        /\ SubSeq(s, Offset(parts, k) + 1, Offset(parts, k) + Len(parts[k])) = parts[k]
        /\ k > 1 => SubSeq(s, Offset(parts, k), Offset(parts, k)) = ":"

\* C4 as stated: whatever value the login call returns, a session identifier
\* is composed and printed.
C4_AnyValueComposes ==
    (Done /\ result # PyUnbound) => Printed("SessionID")

\* C4 amended: for every list the login call returns, the run composes and
\* prints the username followed by str() of each element, joined by ':' in
\* the returned order (for an empty list, the username alone); no element's
\* shape prevents it.
C4_SessionIdForLists ==
    (result.t = "list" /\ pc # "compose") =>
        /\ session_id.t = "str"
        /\ WellJoined(session_id.s,
               <<"admin">> \o [k \in DOMAIN result.items |-> Rendering(result.items[k])])
        /\ result.items = <<>> => session_id.s = "admin"
        /\ pc \notin {"connected"} =>
               \E k \in DOMAIN out :
                   out[k] = [line |-> "SessionID", text |-> "Session ID: " \o session_id.s]

C4_Witness ==
    /\ Done
    /\ result = PyList(<<PyInt(105), PyString("a:b")>>)
    /\ \E k \in DOMAIN out : out[k].text = "Session ID: admin:105:a:b"

DigitValue(c) == CHOOSE d \in 0..9 : SubSeq("0123456789", d + 1, d + 1) = c

RECURSIVE ParseNat(_)
ParseNat(s) ==
    IF Len(s) = 0 THEN 0
    ELSE 10 * ParseNat(SubSeq(s, 1, Len(s) - 1)) + DigitValue(SubSeq(s, Len(s), Len(s)))

\* the number between "\nFound " and " models (showing first 10)"
CountShown(text) ==
    ParseNat(SubSeq(text, Len("\nFound ") + 1, Len(text) - Len(" models (showing first 10)")))

\* C5: when login succeeds and the listing query returns a list of n
\* entries, the run prints the count n and exits with 0; an empty list gives
\* a printed count of 0.
C5_CountIsListLength ==
    (Done /\ models.t = "list") =>
        /\ exitCode = <<0>>
        /\ \E k \in DOMAIN out :
              /\ out[k].line = "Found"
              /\ CountShown(out[k].text) = Len(models.items)
        /\ models.items = <<>> =>
              out[Len(out)].text = "\nFound 0 models (showing first 10)"

C5_Witness ==
    /\ Done
    /\ models = PyList(<<>>)
    /\ exitCode = <<0>>
    /\ out[Len(out)].text = "\nFound 0 models (showing first 10)"

\* at most two calls: one login, then at most one listing query, issued only
\* after the login call has returned and "Logged in successfully!" was printed
CallDiscipline ==
    /\ Len(calls) <= 2
    /\ pc \notin {"start", "login"} => Len(calls) >= 1
    /\ Len(calls) >= 1 => calls[1].method = "common.db.login"
    /\ Len(calls) = 2 =>
        /\ calls[2].method = "model.ir.model.search"
        /\ result.t = "list"
        /\ Printed("LoggedIn")
    /\ Done => exitCode \in {<<0>>, <<1>>}
    /\ ~Done => exitCode = <<>>

\* C6: given that every RPC returns or raises, every run terminates with an
\* exit code after exactly one login call and at most one listing query; the
\* query is never issued before login has returned successfully and no call
\* is retried.
C6_TerminatesWithinTwoCalls == []CallDiscipline /\ <>Done

C6_Witness == Done /\ Len(calls) = 2 /\ exitCode = <<0>>

\* what a failed login prints, the error text left out
LoginFailureOutput ==
    << [line |-> "Connecting",
        text |-> "Connecting to http://localhost:8001/ database 'demo'..."],
       [line |-> "LoggingIn", text |-> "Logging in as admin..."],
       [line |-> "LoginFailed", text |-> ""],
       [line |-> "TryingCreate", text |-> "\nTrying to create admin user first..."],
       [line |-> "NeedsInit", text |->
          "Database needs initialization. Please run: trytond-admin -c trytond.conf -d demo --all"] >>

\* C7: the outcome of a handled block does not depend on which exception was
\* raised: every run whose login call raises takes the same path to exit
\* code 1, every run whose listing query raises takes the same path to exit
\* code 0, and only the error text differs.
C7_ExceptionKindIrrelevant ==
    /\ (Done /\ LoginCallRaised) =>
        /\ Kinds(out) = LoginFailurePath
        /\ exitCode = <<1>>
        /\ Len(calls) = 1
        /\ \E x \in RpcErrors : out[3].text = "Login failed: " \o x.s
        /\ [out EXCEPT ![3].text = ""] = LoginFailureOutput
    /\ (Done /\ SearchCallRaised) =>
        /\ Kinds(out) = SearchFailurePath
        /\ exitCode = <<0>>
        /\ Len(calls) = 2
        /\ \E x \in RpcErrors : out[6].text = "Error listing models: " \o x.s

C7_Witness ==
    /\ Done
    /\ LoginCallRaised
    /\ out[3].text = "Login failed: [Errno 111] Connection refused"

\* C8: the listing query always carries the same arguments (empty filter,
\* offset 0, limit 10, no ordering) whatever login returned; the session
\* identifier is not among them.
C8_SearchArgsFixed ==
    \A k \in DOMAIN calls :
        calls[k].method = "model.ir.model.search" =>
            /\ calls[k].args = <<PyList(<<>>), PyInt(0), PyInt(10), PyNone>>
            /\ \A a \in DOMAIN calls[k].args : calls[k].args[a] # session_id

C8_Witness ==
    /\ Issued("model.ir.model.search")
    /\ result = PyList(<<PyInt(105), PyString("a:b")>>)
    /\ session_id = PyString("admin:105:a:b")

\* C9: a login call that returns a value that is not a list is handled as a
\* login failure: "Login failed" and the hint are printed, the exit code is
\* 1, "Logged in successfully!" and the session identifier are never printed
\* and the listing query is never issued.
C9_NonListIsLoginFailure ==
    (result # PyUnbound /\ result.t # "list" /\ pc # "compose") =>
        /\ pc \in {"login_except", "done"}
        /\ session_id = PyUnbound
        /\ ~Printed("LoggedIn")
        /\ ~Printed("SessionID")
        /\ ~Issued("model.ir.model.search")
        /\ Done => Kinds(out) = LoginFailurePath /\ exitCode = <<1>>

C9_Witness ==
    /\ Done
    /\ result = PyNone
    /\ out[3].text = "Login failed: can only concatenate list (not \"NoneType\") to list"

Occurrences(kind) == Cardinality({k \in DOMAIN out : out[k].line = kind})

\* C10: a terminated run has printed exactly one of "Logged in
\* successfully!" and "Login failed"; "Connection successful!" and the
\* session identifier are printed only after "Logged in successfully!" and
\* before the listing query is issued; the count and "Error listing models"
\* are never both printed.
C10_MessageOrder ==
    /\ ~(Printed("LoggedIn") /\ Printed("LoginFailed"))
    /\ Done => (Printed("LoggedIn") \/ Printed("LoginFailed"))
    /\ \A k \in DOMAIN out :
          out[k].line \in {"Connection", "SessionID"} =>
              \E j \in 1..(k - 1) : out[j].line = "LoggedIn"
    /\ Issued("model.ir.model.search") =>
          Occurrences("Connection") = 1 /\ Occurrences("SessionID") = 1
    /\ ~Issued("model.ir.model.search") =>
          Occurrences("Found") = 0 /\ Occurrences("ErrorListing") = 0
    /\ ~(Printed("Found") /\ Printed("ErrorListing"))

C10_Witness == Done /\ Printed("LoggedIn") /\ Printed("ErrorListing")

====
